---- MODULE Spec2Model ----
(***************************************************************************)
(* venvjail: the `create` command of src/venvjail.py.  The model covers    *)
(* the pattern lists (FileList), the package selection and extraction loop *)
(* of create(), and the five relocation fixers run by _fix_virtualenv().   *)
(*                                                                         *)
(* Strings are sequences of one-character strings, so that os.path.join,   *)
(* str.startswith, `in`, str.strip and the regular expressions of the `re` *)
(* module act on them character by character.  A file's content is the     *)
(* sequence of its lines (each line newline-terminated in the file).       *)
(***************************************************************************)
EXTENDS Integers, Sequences, FiniteSets, TLC

VARIABLES
    dest_dir,      \* args.dest_dir
    relocate,      \* args.relocate
    include_file,  \* content of the file args.include, or Missing
    exclude_file,  \* content of the file args.exclude, or Missing
    repo,          \* basenames of args.repo/*.rpm
    meta_ok,       \* whether the external commands of add_meta_inf succeed
    include,       \* FileList(args.include).items
    exclude,       \* FileList(args.exclude).items
    todo,          \* packages the loop of create() has not reached yet
    included,      \* create(): included
    excluded,      \* create(): excluded
    unpack_log,    \* <<rpm, "ok" | "failed">> for every rpm2cpio | cpio call made
    tree,          \* the destination tree: relative path -> node
    pc,            \* position of create() in its body
    ran,           \* the fixer stages started, in order
    prevTree,      \* the tree as the last started fixer stage found it
    ledger         \* packages.log, or NoLedger

vars == <<dest_dir, relocate, include_file, exclude_file, repo, meta_ok,
          include, exclude, todo, included, excluded, unpack_log, tree, pc,
          ran, prevTree, ledger>>

(***************************************************************************)
(* String literals of the program and of the inputs.                       *)
(***************************************************************************)
\* (the empty string)
s_empty == <<>>
\* /
s_slash == <<"/">>
\*  
s_space == <<" ">>
\* #
s_hash == <<"#">>
\* #!
s_hashbang == <<"#","!">>
\* python
s_python == <<"p","y","t","h","o","n">>
\* bin
s_bin == <<"b","i","n">>
\* lib
s_lib == <<"l","i","b">>
\* python2
s_python2 == <<"p","y","t","h","o","n","2">>
\* alternatives
s_alternatives == <<"a","l","t","e","r","n","a","t","i","v","e","s">>
\* -2.7
s_suffix27 == <<"-","2",".","7">>
\* etc
s_etc == <<"e","t","c">>
\* etc/cron.daily
s_etc_cron_daily == <<"e","t","c","/","c","r","o","n",".","d","a","i","l","y">>
\* etc/logrotate.d
s_etc_logrotate_d == <<"e","t","c","/","l","o","g","r","o","t","a","t","e",".","d">>
\* etc/modprobe.d
s_etc_modprobe_d == <<"e","t","c","/","m","o","d","p","r","o","b","e",".","d">>
\* etc/sudoers.d
s_etc_sudoers_d == <<"e","t","c","/","s","u","d","o","e","r","s",".","d">>
\* srv
s_srv == <<"s","r","v">>
\* srv/www
s_srv_www == <<"s","r","v","/","w","w","w">>
\* usr
s_usr == <<"u","s","r">>
\* usr/share
s_usr_share == <<"u","s","r","/","s","h","a","r","e">>
\* var
s_var == <<"v","a","r">>
\* var/cache
s_var_cache == <<"v","a","r","/","c","a","c","h","e">>
\* var/lib
s_var_lib == <<"v","a","r","/","l","i","b">>
\* var/log
s_var_log == <<"v","a","r","/","l","o","g">>
\* activate
s_activate == <<"a","c","t","i","v","a","t","e">>
\* activate.csh
s_activate_csh == <<"a","c","t","i","v","a","t","e",".","c","s","h">>
\* activate.fish
s_activate_fish == <<"a","c","t","i","v","a","t","e",".","f","i","s","h">>
\* VIRTUAL_ENV=".*"
s_re_sh == <<"V","I","R","T","U","A","L","_","E","N","V","=","\"",".","*","\"">>
\* setenv VIRTUAL_ENV ".*"
s_re_csh == <<"s","e","t","e","n","v"," ","V","I","R","T","U","A","L","_","E","N","V"," ","\"",".","*","\"">>
\* set -gx VIRTUAL_ENV ".*"
s_re_fish == <<"s","e","t"," ","-","g","x"," ","V","I","R","T","U","A","L","_","E","N","V"," ","\"",".","*","\"">>
\* VIRTUAL_ENV="
s_env_sh == <<"V","I","R","T","U","A","L","_","E","N","V","=","\"">>
\* setenv VIRTUAL_ENV "
s_env_csh == <<"s","e","t","e","n","v"," ","V","I","R","T","U","A","L","_","E","N","V"," ","\"">>
\* set -gx VIRTUAL_ENV "
s_env_fish == <<"s","e","t"," ","-","g","x"," ","V","I","R","T","U","A","L","_","E","N","V"," ","\"">>
\* export LD_LIBRARY_PATH="
s_ld_sh == <<"e","x","p","o","r","t"," ","L","D","_","L","I","B","R","A","R","Y","_","P","A","T","H","=","\"">>
\* setenv LD_LIBRARY_PATH "
s_ld_csh == <<"s","e","t","e","n","v"," ","L","D","_","L","I","B","R","A","R","Y","_","P","A","T","H"," ","\"">>
\* set -gx LD_LIBRARY_PATH "
s_ld_fish == <<"s","e","t"," ","-","g","x"," ","L","D","_","L","I","B","R","A","R","Y","_","P","A","T","H"," ","\"">>
\* "
s_quote == <<"\"">>
\* deactivate nondestructive
s_anchor == <<"d","e","a","c","t","i","v","a","t","e"," ","n","o","n","d","e","s","t","r","u","c","t","i","v","e">>
\* usr/lib/systemd/system
s_systemd == <<"u","s","r","/","l","i","b","/","s","y","s","t","e","m","d","/","s","y","s","t","e","m">>
\* .service
s_dot_service == <<".","s","e","r","v","i","c","e">>
\* venv-
s_venv_dash == <<"v","e","n","v","-">>
\* ExecStart=
s_ExecStart == <<"E","x","e","c","S","t","a","r","t","=">>
\* ExecStartPre=-
s_ExecStartPre == <<"E","x","e","c","S","t","a","r","t","P","r","e","=","-">>
\* .*
s_dotstar == <<".","*">>
\* META-INF
s_META_INF == <<"M","E","T","A","-","I","N","F">>
\* META-INF/version.yml
s_version_yml == <<"M","E","T","A","-","I","N","F","/","v","e","r","s","i","o","n",".","y","m","l">>
\* META-INF/manifest.yml
s_manifest_yml == <<"M","E","T","A","-","I","N","F","/","m","a","n","i","f","e","s","t",".","y","m","l">>
\* usr/bin
s_usr_bin == <<"u","s","r","/","b","i","n">>
\* usr/lib
s_usr_lib == <<"u","s","r","/","l","i","b">>
\* usr/lib64
s_usr_lib64 == <<"u","s","r","/","l","i","b","6","4">>
\* ../bin
s_up_bin == <<".",".","/","b","i","n">>
\* ../lib
s_up_lib == <<".",".","/","l","i","b">>
\* svc-1
d_rel == <<"s","v","c","-","1">>
\* /build/svc-1
d_abs == <<"/","b","u","i","l","d","/","s","v","c","-","1">>
\* /opt/env
r_opt == <<"/","o","p","t","/","e","n","v">>
\* a-1.rpm
rpm_a == <<"a","-","1",".","r","p","m">>
\* a-devel-1.rpm
rpm_adevel == <<"a","-","d","e","v","e","l","-","1",".","r","p","m">>
\* b-1.rpm
rpm_b == <<"b","-","1",".","r","p","m">>
\* # packages (Python regex)
l_comment == <<"#"," ","p","a","c","k","a","g","e","s"," ","(","P","y","t","h","o","n"," ","r","e","g","e","x",")">>
\*   
l_blank == <<" "," ">>
\* .*-devel
l_devel_any == <<".","*","-","d","e","v","e","l">>
\* devel
l_devel == <<"d","e","v","e","l">>
\*  a
l_a == <<" ","a">>
\* b-1
l_b1 == <<"b","-","1">>
\* 1.rpm$
l_1rpm == <<"1",".","r","p","m","$">>
\* bin
p_bin == <<"b","i","n">>
\* lib
p_lib == <<"l","i","b">>
\* opt
p_opt == <<"o","p","t">>
\* bin/python2
p_python2 == <<"b","i","n","/","p","y","t","h","o","n","2">>
\* bin/activate
p_activate == <<"b","i","n","/","a","c","t","i","v","a","t","e">>
\* bin/activate.csh
p_activate_csh == <<"b","i","n","/","a","c","t","i","v","a","t","e",".","c","s","h">>
\* bin/activate.fish
p_activate_fish == <<"b","i","n","/","a","c","t","i","v","a","t","e",".","f","i","s","h">>
\* bin/myservice
p_myservice == <<"b","i","n","/","m","y","s","e","r","v","i","c","e">>
\* bin/tool
p_tool == <<"b","i","n","/","t","o","o","l">>
\* bin/tool-2.7
p_tool27 == <<"b","i","n","/","t","o","o","l","-","2",".","7">>
\* bin/other
p_other == <<"b","i","n","/","o","t","h","e","r">>
\* bin/run.sh
p_run == <<"b","i","n","/","r","u","n",".","s","h">>
\* usr/lib/systemd/system/myservice.service
p_unit == <<"u","s","r","/","l","i","b","/","s","y","s","t","e","m","d","/","s","y","s","t","e","m","/","m","y","s","e","r","v","i","c","e",".","s","e","r","v","i","c","e">>
\* usr/lib/systemd/system/venv-myservice.service
p_venv_unit == <<"u","s","r","/","l","i","b","/","s","y","s","t","e","m","d","/","s","y","s","t","e","m","/","v","e","n","v","-","m","y","s","e","r","v","i","c","e",".","s","e","r","v","i","c","e">>
\* /etc/alternatives/tool
t_tool == <<"/","e","t","c","/","a","l","t","e","r","n","a","t","i","v","e","s","/","t","o","o","l">>
\* /etc/alternatives/other
t_other == <<"/","e","t","c","/","a","l","t","e","r","n","a","t","i","v","e","s","/","o","t","h","e","r">>
\* VIRTUAL_ENV="/b"
c_env_sh == <<"V","I","R","T","U","A","L","_","E","N","V","=","\"","/","b","\"">>
\* export VIRTUAL_ENV
c_export == <<"e","x","p","o","r","t"," ","V","I","R","T","U","A","L","_","E","N","V">>
\* setenv VIRTUAL_ENV "/b"
c_env_csh == <<"s","e","t","e","n","v"," ","V","I","R","T","U","A","L","_","E","N","V"," ","\"","/","b","\"">>
\* set -gx VIRTUAL_ENV "/b"
c_env_fish == <<"s","e","t"," ","-","g","x"," ","V","I","R","T","U","A","L","_","E","N","V"," ","\"","/","b","\"">>
\* deactivate
c_other == <<"d","e","a","c","t","i","v","a","t","e">>
\* #!/usr/bin/python
c_py == <<"#","!","/","u","s","r","/","b","i","n","/","p","y","t","h","o","n">>
\*  #!/usr/bin/python2.7 
c_py27 == <<" ","#","!","/","u","s","r","/","b","i","n","/","p","y","t","h","o","n","2",".","7"," ">>
\* #!/bin/sh
c_sh == <<"#","!","/","b","i","n","/","s","h">>
\* import a
c_import == <<"i","m","p","o","r","t"," ","a">>
\* # 
c_yaml == <<"#"," ">>
\* [Service]
c_Service == <<"[","S","e","r","v","i","c","e","]">>
\* ExecStart=/usr/bin/myservice --flag
c_ExecStart == <<"E","x","e","c","S","t","a","r","t","=","/","u","s","r","/","b","i","n","/","m","y","s","e","r","v","i","c","e"," ","-","-","f","l","a","g">>
\* ExecStartPre=-/usr/bin/pre
c_ExecStartPre == <<"E","x","e","c","S","t","a","r","t","P","r","e","=","-","/","u","s","r","/","b","i","n","/","p","r","e">>
\* /usr/bin/myservice --flag
c_cmd == <<"/","u","s","r","/","b","i","n","/","m","y","s","e","r","v","i","c","e"," ","-","-","f","l","a","g">>

(***************************************************************************)
(* Eval(x, Op) is Op(x), with x bound to its value rather than to the      *)
(* expression that denotes it: the statement `v = x; ... Op(v)`.           *)
(***************************************************************************)
Eval(x, Op(_)) == CHOOSE r \in {Op(v) : v \in {x}} : TRUE

(***************************************************************************)
(* Strings.                                                                *)
(***************************************************************************)
\* str.startswith
StartsWith(s, p) == Len(s) >= Len(p) /\ SubSeq(s, 1, Len(p)) = p

\* str.endswith
EndsWith(s, p) == Len(s) >= Len(p) /\ SubSeq(s, Len(s) - Len(p) + 1, Len(s)) = p

\* the `in` operator on two strings: p occurs somewhere in s
Contains(s, p) == \E i \in 1..(Len(s) - Len(p) + 1) : SubSeq(s, i, i + Len(p) - 1) = p

\* str.strip (of the blanks the inputs hold)
RECURSIVE LStrip(_)
LStrip(s) == IF s # <<>> /\ Head(s) = " " THEN LStrip(Tail(s)) ELSE s

RECURSIVE RStrip(_)
RStrip(s) == IF s # <<>> /\ s[Len(s)] = " " THEN RStrip(SubSeq(s, 1, Len(s) - 1)) ELSE s

Strip(s) == RStrip(LStrip(s))

\* os.path.join of two components: an absolute second component discards the first
Join(a, b) ==
    IF StartsWith(b, s_slash) THEN b
    ELSE IF a = <<>> \/ EndsWith(a, s_slash) THEN a \o b
    ELSE a \o s_slash \o b

Join3(a, b, c) == Join(Join(a, b), c)

\* min and max of a non-empty set of positions
Least(S) == CHOOSE m \in S : \A n \in S : m <= n

Greatest(S) == CHOOSE m \in S : \A n \in S : m >= n

\* index of the last "/" among the first i characters of a path, 0 when there is none
LastSlash(p, i) ==
    Eval({k \in 1..i : p[k] = "/"}, LAMBDA at : IF at = {} THEN 0 ELSE Greatest(at))

\* os.path.dirname and os.path.basename of a tree-relative path
Dirname(p) == LET i == LastSlash(p, Len(p)) IN IF i = 0 THEN <<>> ELSE SubSeq(p, 1, i - 1)

Basename(p) == SubSeq(p, LastSlash(p, Len(p)) + 1, Len(p))

(***************************************************************************)
(* Regular expressions of the `re` module, for the syntax the program and  *)
(* its inputs use: literal characters, `.`, `x*` (greedy), `^` and `$`.    *)
(* MatchHere is the backtracking matcher: the position after the match of  *)
(* re[i..] that starts at text[j], or 0 when there is none.  The text is   *)
(* one line, so `.` never meets a newline.                                 *)
(***************************************************************************)
CharMatches(c, t) == c = "." \/ c = t

\* the number of characters from text[j] on that match c
MaxRun(c, text, j) ==
    Eval({m \in j..Len(text) : ~CharMatches(c, text[m])},
         LAMBDA stop : IF stop = {} THEN Len(text) - j + 1 ELSE Least(stop) - j)

\* re[i] is `^`, `$` or an item that a `*` follows
Special(re, i) == re[i] \in {"^", "$"} \/ (i < Len(re) /\ re[i + 1] = "*")

\* the number of items from re[i] on that each match exactly one character
PlainRun(re, i) ==
    Eval({m \in i..Len(re) : Special(re, m)},
         LAMBDA stop : IF stop = {} THEN Len(re) - i + 1 ELSE Least(stop) - i)

RECURSIVE MatchHere(_, _, _, _)
RECURSIVE MatchStar(_, _, _, _, _)
MatchHere(re, i, text, j) ==
    IF i > Len(re) THEN j
    ELSE IF i < Len(re) /\ re[i + 1] = "*"
         THEN Eval(MaxRun(re[i], text, j), LAMBDA k : MatchStar(re, i, text, j, k))
    ELSE IF re[i] = "^" THEN (IF j = 1 THEN MatchHere(re, i + 1, text, j) ELSE 0)
    ELSE IF re[i] = "$" THEN (IF j = Len(text) + 1 THEN MatchHere(re, i + 1, text, j) ELSE 0)
    ELSE Eval(PlainRun(re, i),
              LAMBDA n : IF /\ j + n - 1 <= Len(text)
                            /\ \A m \in 0..(n - 1) : CharMatches(re[i + m], text[j + m])
                         THEN MatchHere(re, i + n, text, j + n)
                         ELSE 0)

\* re[i]* then re[i+2..]: the longest run of at most k characters after which
\* the rest of the pattern matches
MatchStar(re, i, text, j, k) ==
    Eval({n \in 0..k : MatchHere(re, i + 2, text, j + n) # 0},
         LAMBDA ok : IF ok = {} THEN 0 ELSE MatchHere(re, i + 2, text, j + Greatest(ok)))

\* ReMatch with pattern.search in the place of pattern.match
ReMatch_Search(re, text) == \E j \in 1..(Len(text) + 1) : MatchHere(re, 1, text, j) # 0

\* pattern.match(text): a match that starts at the first character
ReMatch(re, text) == MatchHere(re, 1, text, 1) # 0

\* pattern.search(text): a match that starts anywhere
ReSearch(re, text) == \E j \in 1..(Len(text) + 1) : MatchHere(re, 1, text, j) # 0

\* re.sub(re, repl, text) on one line, scanning from text[j]: every leftmost
\* non-overlapping (non-empty) match becomes head \o group, where group is the
\* part of the match after its first `skip` characters when skip >= 0 (the
\* replacement template ends in \1 and the pattern is `skip` literals then
\* `(.*)`), and nothing when skip = -1 (a template without group reference).
RECURSIVE ReSubFrom(_, _, _, _, _)
ReSubFrom(re, head, skip, text, j) ==
    Eval({e \in {<<m, MatchHere(re, 1, text, m)>> : m \in j..Len(text)} : e[2] > e[1]},
         LAMBDA found :
             IF found = {} THEN SubSeq(text, j, Len(text))
             ELSE Eval(CHOOSE e \in found : \A f \in found : e[1] <= f[1],
                       LAMBDA e :
                           SubSeq(text, j, e[1] - 1) \o head
                           \o (IF skip >= 0 THEN SubSeq(text, e[1] + skip, e[2] - 1) ELSE <<>>)
                           \o ReSubFrom(re, head, skip, text, e[2])))

ReSubLine(re, head, skip, text) == ReSubFrom(re, head, skip, text, 1)

\* re.sub over a file's content, line by line
ReSub(re, head, skip, lines) ==
    Eval(<<re, head, lines>>,
         LAMBDA a : [k \in 1..Len(a[3]) |-> ReSubLine(a[1], a[2], skip, a[3][k])])

(***************************************************************************)
(* class FileList                                                          *)
(***************************************************************************)

\* FileList.__init__: the patterns of the lines that are neither blank nor
\* comments; no pattern at all when the file cannot be opened
RECURSIVE PatternLines(_)
PatternLines(lines) ==
    IF lines = <<>> THEN <<>>
    ELSE LET l == Strip(Head(lines))
         IN  IF l # <<>> /\ ~StartsWith(l, s_hash)
             THEN <<l>> \o PatternLines(Tail(lines))
             ELSE PatternLines(Tail(lines))

\* FileList.__init__ falling back to a built-in exclusion when the file is missing
FileList_DefaultOnMissing(file) ==
    IF file.exists THEN PatternLines(file.lines) ELSE <<s_dotstar>>

FileList(file) == IF file.exists THEN PatternLines(file.lines) ELSE <<>>

\* FileList.is_populated: the truth value of self.items
IsPopulated(items) == items # <<>>

\* FileList.contains
ListContains(items, item) == \E i \in 1..Len(items) : ReMatch(items[i], item)

(***************************************************************************)
(* The destination tree: a function from tree-relative paths to nodes.     *)
(* kind is "dir", "file", "link" (a symbolic link os.walk lists among the  *)
(* file names) or "dirlink" (a symbolic link to a directory, which os.walk *)
(* lists among the directory names and does not descend into).  `live`     *)
(* says whether a link's target exists while the tree is built, `bad`      *)
(* whether opening or decoding the file raises.                            *)
(***************************************************************************)
M755 == 493
M750 == 488
M700 == 448
M644 == 420
M444 == 292

Dir(mode) ==
    [kind |-> "dir", mode |-> mode, lines |-> <<>>, target |-> <<>>, live |-> TRUE, bad |-> FALSE]

File(mode, lines) ==
    [kind |-> "file", mode |-> mode, lines |-> lines, target |-> <<>>, live |-> TRUE, bad |-> FALSE]

BadFile(mode) ==
    [kind |-> "file", mode |-> mode, lines |-> <<>>, target |-> <<>>, live |-> TRUE, bad |-> TRUE]

Link(target, live) ==
    [kind |-> "link", mode |-> 0, lines |-> <<>>, target |-> target, live |-> live, bad |-> FALSE]

DirLink(target) ==
    [kind |-> "dirlink", mode |-> 0, lines |-> <<>>, target |-> target, live |-> TRUE, bad |-> FALSE]

\* os.path.isdir, os.path.exists (both follow symbolic links)
IsDir(t, p) == p \in DOMAIN t /\ t[p].kind = "dir"

Exists(t, p) == p \in DOMAIN t /\ t[p].live

\* t with the entries of u written over it
Overlay(t, u) == [p \in DOMAIN t \cup DOMAIN u |-> IF p \in DOMAIN u THEN u[p] ELSE t[p]]

\* the tree-relative path a path under dest_dir names, <<>> for any other path
KeyOf(dest, path) ==
    LET pre == dest \o s_slash
    IN  IF StartsWith(path, pre) THEN SubSeq(path, Len(pre) + 1, Len(path)) ELSE <<>>

\* the dirpath os.walk(dest) reports for the directory of tree-relative path p
Dirpath(dest, p) == IF Dirname(p) = <<>> THEN dest ELSE Join(dest, Dirname(p))

\* every order in which the elements of a finite set can be listed
Orders(S) ==
    {f \in [1..Cardinality(S) -> S] : \A i, j \in 1..Cardinality(S) : i # j => f[i] # f[j]}

(***************************************************************************)
(* _fix_virtualenv: the relocated path of the environment                  *)
(***************************************************************************)
VirtualEnv(dest, relocated) == Join(relocated, dest)

(***************************************************************************)
(* Stage 1: _fix_filesystem                                                *)
(***************************************************************************)
DirTable ==
    << <<s_etc, M755>>, <<s_etc_cron_daily, M755>>, <<s_etc_logrotate_d, M755>>,
       <<s_etc_modprobe_d, M755>>, <<s_etc_sudoers_d, M750>>, <<s_srv, M755>>,
       <<s_srv_www, M755>>, <<s_usr, M755>>, <<s_usr_share, M755>>, <<s_var, M755>>,
       <<s_var_cache, M755>>, <<s_var_lib, M755>>, <<s_var_log, M755>> >>

TableDirs == {DirTable[i][1] : i \in 1..Len(DirTable)}

\* the table with 0o755 for every directory
TableMode_Uniform(p) == M755

TableMode(p) == DirTable[CHOOSE i \in 1..Len(DirTable) : DirTable[i][1] = p][2]

FixFilesystem(t) ==
    [p \in DOMAIN t |->
        IF p \in TableDirs /\ IsDir(t, p) THEN [t[p] EXCEPT !.mode = TableMode(p)] ELSE t[p]]

(***************************************************************************)
(* Stage 2: _fix_alternatives                                              *)
(***************************************************************************)
\* the loop body naming the new target after the link's old target, not its name
FixAlternativesLink_FromTarget(t, p, dest, relocated) ==
    IF t[p].kind = "link" /\ Contains(t[p].target, s_alternatives)
    THEN LET alt_name == Join(relocated, t[p].target \o s_suffix27)
             alt_rel_name == p \o s_suffix27
         IN  IF Exists(t, alt_rel_name)
             THEN [t EXCEPT ![p] = Link(alt_name, Exists(t, KeyOf(dest, alt_name)))]
             ELSE t
    ELSE t

\* the body of the loop for the file name at tree-relative path p
FixAlternativesLink(t, p, dest, relocated) ==
    IF t[p].kind = "link" /\ Contains(t[p].target, s_alternatives)
    THEN LET alt_name == Join3(relocated, Dirpath(dest, p), Basename(p) \o s_suffix27)
             alt_rel_name == p \o s_suffix27
         IN  IF Exists(t, alt_rel_name)
             THEN [t EXCEPT ![p] = Link(alt_name, Exists(t, KeyOf(dest, alt_name)))]
             ELSE t
    ELSE t

RECURSIVE FixAlternativesWalk(_, _, _, _)
FixAlternativesWalk(t, order, dest, relocated) ==
    IF order = <<>> THEN t
    ELSE Eval(FixAlternativesLink(t, Head(order), dest, relocated),
              LAMBDA fixed : FixAlternativesWalk(fixed, Tail(order), dest, relocated))

\* the trees the stage can leave, one per order in which os.walk lists the links
FixAlternatives(t, dest, relocated) ==
    {FixAlternativesWalk(t, order, dest, relocated) :
        order \in Orders({p \in DOMAIN t : t[p].kind = "link"})}

(***************************************************************************)
(* Stage 3: _fix_relocation                                                *)
(***************************************************************************)
Shebang(virtual_env) == s_hashbang \o Join3(virtual_env, s_bin, s_python2)

\* _replace(filename, original, line) for a replacement without group reference
Replace(node, original, line) == [node EXCEPT !.lines = ReSub(original, line, -1, node.lines)]

\* the loop body replacing the `#!` marker alone, not the whole first line
FixRelocationFile_Marker(node, shebang) ==
    IF node.bad \/ node.lines = <<>> THEN node
    ELSE Eval(Strip(node.lines[1]),
              LAMBDA line : IF StartsWith(line, s_hashbang) /\ Contains(line, s_python)
                            THEN Replace(node, s_hashbang, shebang)
                            ELSE node)

\* the body of the loop for one regular file; an exception leaves the file alone
FixRelocationFile(node, shebang) ==
    IF node.bad \/ node.lines = <<>> THEN node
    ELSE Eval(Strip(node.lines[1]),
              LAMBDA line : IF StartsWith(line, s_hashbang) /\ Contains(line, s_python)
                            THEN Replace(node, line, shebang)
                            ELSE node)

RECURSIVE FixRelocationTimes(_, _, _)
FixRelocationTimes(node, shebang, n) ==
    IF n = 0 THEN node
    ELSE Eval(FixRelocationFile(node, shebang),
              LAMBDA fixed : FixRelocationTimes(fixed, shebang, n - 1))

\* the live links of the tree that os.path.isfile and open follow to file p
LinksTo(t, dest, p) ==
    {q \in DOMAIN t : t[q].kind = "link" /\ t[q].live /\ KeyOf(dest, t[q].target) = p}

\* every regular file is rewritten once under its own name and once more under
\* the name of each live link to it; files are independent of each other, so
\* the order of the walk does not show
FixRelocation(t, dest, virtual_env) ==
    Eval(Shebang(virtual_env),
         LAMBDA shebang :
             [p \in DOMAIN t |->
                 IF t[p].kind = "file"
                 THEN FixRelocationTimes(t[p], shebang, 1 + Cardinality(LinksTo(t, dest, p)))
                 ELSE t[p]])

(***************************************************************************)
(* Stage 4: _fix_activators                                                *)
(***************************************************************************)
Activators == {s_activate, s_activate_csh, s_activate_fish}

\* activators[activator]['replace']
ActivatorReplace(activator, virtual_env) ==
    IF activator = s_activate THEN <<s_re_sh, s_env_sh \o virtual_env \o s_quote>>
    ELSE IF activator = s_activate_csh THEN <<s_re_csh, s_env_csh \o virtual_env \o s_quote>>
    ELSE <<s_re_fish, s_env_fish \o virtual_env \o s_quote>>

\* activators[activator]['insert']
ActivatorInsert(activator, virtual_env) ==
    LET ld_library_path == Join(virtual_env, s_lib)
    IN  IF activator = s_activate THEN <<s_anchor, s_ld_sh \o ld_library_path \o s_quote>>
        ELSE IF activator = s_activate_csh THEN <<s_anchor, s_ld_csh \o ld_library_path \o s_quote>>
        ELSE <<s_anchor, s_ld_fish \o ld_library_path \o s_quote>>

\* lines.index(after + '\n'), 0 when list.index raises ValueError
IndexOf(lines, after) ==
    IF \E i \in 1..Len(lines) : lines[i] = after
    THEN CHOOSE i \in 1..Len(lines) : lines[i] = after /\ \A k \in 1..(i - 1) : lines[k] # after
    ELSE 0

\* _insert catching the ValueError and appending the line at the end
Insert_Append(node, after, line) ==
    LET index == IndexOf(node.lines, after)
    IN  [ok |-> TRUE,
         node |-> [node EXCEPT !.lines =
                      IF index = 0 THEN Append(node.lines, line)
                      ELSE SubSeq(node.lines, 1, index) \o <<line>>
                           \o SubSeq(node.lines, index + 1, Len(node.lines))]]

\* _insert(filename, after, line): [ok |-> FALSE] when the ValueError is raised
Insert(node, after, line) ==
    LET index == IndexOf(node.lines, after)
    IN  IF index = 0 THEN [ok |-> FALSE, node |-> node]
        ELSE [ok |-> TRUE,
              node |-> [node EXCEPT !.lines = SubSeq(node.lines, 1, index) \o <<line>>
                                     \o SubSeq(node.lines, index + 1, Len(node.lines))]]

\* the body of the loop for one activator: [ok, tree]
FixActivator(t, activator, virtual_env) ==
    LET filename == Join(s_bin, activator)
    IN  IF filename \notin DOMAIN t \/ t[filename].kind # "file" \/ t[filename].bad
        THEN [ok |-> FALSE, tree |-> t]
        ELSE LET rep == ActivatorReplace(activator, virtual_env)
                 ins == ActivatorInsert(activator, virtual_env)
             IN  Eval(Replace(t[filename], rep[1], rep[2]),
                      LAMBDA replaced :
                          Eval(Insert(replaced, ins[1], ins[2]),
                               LAMBDA inserted :
                                   [ok |-> inserted.ok,
                                    tree |-> [t EXCEPT ![filename] = inserted.node]]))

RECURSIVE FixActivatorsLoop(_, _, _)
FixActivatorsLoop(t, order, virtual_env) ==
    IF order = <<>> THEN [ok |-> TRUE, tree |-> t]
    ELSE Eval(FixActivator(t, Head(order), virtual_env),
              LAMBDA r : IF r.ok THEN FixActivatorsLoop(r.tree, Tail(order), virtual_env) ELSE r)

\* the outcomes of the stage, one per iteration order of the dict
FixActivators(t, virtual_env) ==
    {FixActivatorsLoop(t, order, virtual_env) : order \in Orders(Activators)}

(***************************************************************************)
(* Stage 5: _fix_systemd_services                                          *)
(***************************************************************************)
\* glob.glob(os.path.join(services, '*.service'))
ServiceGlob(t) ==
    {p \in DOMAIN t : /\ Dirname(p) = s_systemd
                      /\ EndsWith(Basename(p), s_dot_service)
                      /\ Basename(p)[1] # "."}

Chmod(node, mode) == [node EXCEPT !.mode = mode]

\* _replace(service, r'<prefix>(.*)', r'<prefix>%s\1' % virtual_env)
ReplacePrefix(node, prefix, virtual_env) ==
    [node EXCEPT !.lines = ReSub(prefix \o s_dotstar, prefix \o virtual_env, Len(prefix), node.lines)]

\* the rewritten unit file
FixService(node, virtual_env) ==
    Chmod(ReplacePrefix(ReplacePrefix(Chmod(node, M644), s_ExecStart, virtual_env),
                        s_ExecStartPre, virtual_env),
          M444)

\* os.rename(src, dst) of a node that was already rewritten to `node`
Rename(t, src, dst, node) ==
    [p \in (DOMAIN t \ {src}) \cup {dst} |-> IF p = dst THEN node ELSE t[p]]

RECURSIVE FixSystemdServicesLoop(_, _, _)
FixSystemdServicesLoop(t, order, virtual_env) ==
    IF order = <<>> THEN t
    ELSE LET service == Head(order)
             renamed == Join(s_systemd, s_venv_dash \o Basename(service))
         IN  Eval(Rename(t, service, renamed, FixService(t[service], virtual_env)),
                  LAMBDA fixed : FixSystemdServicesLoop(fixed, Tail(order), virtual_env))

\* the trees the stage can leave, one per order of the glob's result
FixSystemdServices(t, virtual_env) ==
    {FixSystemdServicesLoop(t, order, virtual_env) : order \in Orders(ServiceGlob(t))}

(***************************************************************************)
(* The inputs of a run.                                                    *)
(***************************************************************************)
Missing == [exists |-> FALSE, lines |-> <<>>]

TextFile(lines) == [exists |-> TRUE, lines |-> lines]

DestDirs == {d_rel, d_abs}

RelocatedPaths == {r_opt}

IncludeFiles ==
    {Missing, TextFile(<<l_comment, l_blank>>), TextFile(<<l_comment, l_a>>),
     TextFile(<<l_b1, l_devel>>)}

ExcludeFiles == {Missing, TextFile(<<l_comment, l_devel_any>>), TextFile(<<l_1rpm, l_devel>>)}

Packages == {rpm_a, rpm_adevel, rpm_b}

\* the tree `virtualenv` leaves; noanchor names the activator, if any, whose
\* script lacks the line `deactivate nondestructive`
VenvTrees ==
    {  (p_bin :> Dir(M755)) @@ (p_lib :> Dir(M755)) @@ (p_python2 :> BadFile(M755))
    @@ (p_activate :> File(M644,
            <<IF noanchor = s_activate THEN c_other ELSE s_anchor, c_env_sh, c_export>>))
    @@ (p_activate_csh :> File(M644,
            <<IF noanchor = s_activate_csh THEN c_other ELSE s_anchor, c_env_csh>>))
    @@ (p_activate_fish :> File(M644,
            <<IF noanchor = s_activate_fish THEN c_other ELSE s_anchor, c_env_fish>>))
    : noanchor \in Activators \cup {s_empty} }

\* what rpm2cpio | cpio writes into the tree for each package
Payload(rpm) ==
    IF rpm = rpm_a
    THEN   (s_etc :> Dir(M700)) @@ (s_etc_sudoers_d :> Dir(M700))
        @@ (p_unit :> File(M444, <<c_Service, c_ExecStart, c_ExecStartPre>>))
        @@ (p_myservice :> File(M755, <<c_py, c_import, c_py>>))
    ELSE IF rpm = rpm_adevel
    THEN   (p_opt :> Dir(M700)) @@ (p_tool :> Link(t_tool, TRUE))
        @@ (p_tool27 :> File(M755, <<c_py27, c_import>>))
    ELSE   (s_var :> Dir(M700)) @@ (p_other :> Link(t_other, FALSE))
        @@ (p_run :> File(M755, <<c_sh, c_import>>))

NoLedger == [written |-> FALSE, included |-> <<>>, excluded |-> <<>>]

(***************************************************************************)
(* sorted(): the order of str on the characters package names hold         *)
(***************************************************************************)
CharOrder == <<"-", ".", "1", "a", "b", "d", "e", "l", "m", "p", "r", "v">>

Code(c) == CHOOSE i \in 1..Len(CharOrder) : CharOrder[i] = c

RECURSIVE StrLess(_, _)
StrLess(a, b) ==
    IF b = <<>> THEN FALSE
    ELSE IF a = <<>> THEN TRUE
    ELSE IF Head(a) = Head(b) THEN StrLess(Tail(a), Tail(b))
    ELSE Code(Head(a)) < Code(Head(b))

RECURSIVE Sorted(_)
Sorted(S) ==
    IF S = {} THEN <<>>
    ELSE LET least == CHOOSE x \in S : \A y \in S \ {x} : StrLess(x, y)
         IN  <<least>> \o Sorted(S \ {least})

(***************************************************************************)
(* create()                                                                *)
(***************************************************************************)
Init ==
    /\ dest_dir \in DestDirs
    /\ relocate \in RelocatedPaths
    /\ include_file \in IncludeFiles
    /\ exclude_file \in ExcludeFiles
    /\ repo = Packages
    /\ meta_ok \in BOOLEAN
    /\ include = <<>>
    /\ exclude = <<>>
    /\ todo = {}
    /\ included = {}
    /\ excluded = {}
    /\ unpack_log = {}
    /\ tree \in VenvTrees
    /\ pc = "start"
    /\ ran = <<>>
    /\ prevTree = tree
    /\ ledger = NoLedger

\* os.mkdir(usr) and the three links into the tree's own bin and lib
UsrLinks ==
       (s_usr :> Dir(M755)) @@ (s_usr_bin :> DirLink(s_up_bin))
    @@ (s_usr_lib :> DirLink(s_up_lib)) @@ (s_usr_lib64 :> DirLink(s_up_lib))

Prepare ==
    /\ pc = "start"
    /\ tree' = Overlay(tree, UsrLinks)
    /\ pc' = "load"
    /\ UNCHANGED <<dest_dir, relocate, include_file, exclude_file, repo, meta_ok, include,
                   exclude, todo, included, excluded, unpack_log, ran, prevTree, ledger>>

\* include = FileList(args.include); exclude = FileList(args.exclude); glob
LoadLists ==
    /\ pc = "load"
    /\ include' = FileList(include_file)
    /\ exclude' = FileList(exclude_file)
    /\ todo' = repo
    /\ pc' = "loop"
    /\ UNCHANGED <<dest_dir, relocate, include_file, exclude_file, repo, meta_ok,
                   included, excluded, unpack_log, tree, ran, prevTree, ledger>>

\* the two tests in the other order: a match of the include list decides first
Classify_IncludeFirst(inc, exc, rpm) ==
    IF IsPopulated(inc) /\ ListContains(inc, rpm) THEN "included"
    ELSE IF ListContains(exc, rpm) THEN "excluded"
    ELSE IF IsPopulated(inc) THEN "excluded"
    ELSE "included"

\* the two tests at the head of the loop body
Classify(inc, exc, rpm) ==
    IF ListContains(exc, rpm) THEN "excluded"
    ELSE IF IsPopulated(inc) /\ ~ListContains(inc, rpm) THEN "excluded"
    ELSE "included"

\* one iteration that ends in `continue`
ExcludeStep ==
    /\ pc = "loop"
    /\ \E rpm \in todo :
        /\ Classify(include, exclude, rpm) = "excluded"
        /\ excluded' = excluded \cup {rpm}
        /\ todo' = todo \ {rpm}
    /\ UNCHANGED <<dest_dir, relocate, include_file, exclude_file, repo, meta_ok, include,
                   exclude, included, unpack_log, tree, pc, ran, prevTree, ledger>>

\* the iteration with subprocess.check_call: a failed unpack raises
InstallStep_CheckCall ==
    /\ pc = "loop"
    /\ \E rpm \in todo, ok \in BOOLEAN :
        /\ Classify(include, exclude, rpm) = "included"
        /\ included' = included \cup {rpm}
        /\ todo' = todo \ {rpm}
        /\ unpack_log' = unpack_log \cup {<<rpm, IF ok THEN "ok" ELSE "failed">>}
        /\ tree' = IF ok THEN Overlay(tree, Payload(rpm)) ELSE tree
        /\ pc' = IF ok THEN pc ELSE "aborted"
    /\ UNCHANGED <<dest_dir, relocate, include_file, exclude_file, repo, meta_ok, include,
                   exclude, excluded, ran, prevTree, ledger>>

\* one iteration that reaches subprocess.call, whose exit status is not read
InstallStep ==
    /\ pc = "loop"
    /\ \E rpm \in todo, ok \in BOOLEAN :
        /\ Classify(include, exclude, rpm) = "included"
        /\ included' = included \cup {rpm}
        /\ todo' = todo \ {rpm}
        /\ unpack_log' = unpack_log \cup {<<rpm, IF ok THEN "ok" ELSE "failed">>}
        /\ tree' = IF ok THEN Overlay(tree, Payload(rpm)) ELSE tree
    /\ UNCHANGED <<dest_dir, relocate, include_file, exclude_file, repo, meta_ok, include,
                   exclude, excluded, pc, ran, prevTree, ledger>>

\* the statements after the loop run from inside the loop body
LoopFinished_Always == TRUE

\* the for loop is exhausted
LoopFinished == todo = {}

\* add_meta_inf: META-INF/version.yml is written before the external commands
\* run; check_output raises when one fails (ok = FALSE) and manifest.yml is not
\* written.  Both files start with a comment line, which is all a fixer reads
\* of them.
MetaInf(ok) ==
    IF ok
    THEN (s_META_INF :> Dir(M755)) @@ (s_version_yml :> File(M644, <<c_yaml>>))
         @@ (s_manifest_yml :> File(M644, <<c_yaml>>))
    ELSE (s_META_INF :> Dir(M755)) @@ (s_version_yml :> File(M644, <<c_yaml>>))

AddMetaInf ==
    /\ pc = "loop"
    /\ LoopFinished
    /\ tree' = Overlay(tree, MetaInf(meta_ok))
    /\ pc' = IF meta_ok THEN "fs" ELSE "aborted"
    /\ UNCHANGED <<dest_dir, relocate, include_file, exclude_file, repo, meta_ok, include,
                   exclude, todo, included, excluded, unpack_log, ran, prevTree, ledger>>

Frame == UNCHANGED <<dest_dir, relocate, include_file, exclude_file, repo, meta_ok, include,
                     exclude, todo, included, excluded, unpack_log, ledger>>

\* a fixer stage is entered: its number and the tree it finds are recorded
Enter(stage) == ran' = Append(ran, stage) /\ prevTree' = tree

RunFixFilesystem ==
    /\ pc = "fs"
    /\ Enter(1)
    /\ tree' = FixFilesystem(tree)
    /\ pc' = "alt"
    /\ Frame

RunFixAlternatives ==
    /\ pc = "alt"
    /\ Enter(2)
    /\ tree' \in FixAlternatives(tree, dest_dir, relocate)
    /\ pc' = "reloc"
    /\ Frame

RunFixRelocation ==
    /\ pc = "reloc"
    /\ Enter(3)
    /\ tree' = FixRelocation(tree, dest_dir, VirtualEnv(dest_dir, relocate))
    /\ pc' = "act"
    /\ Frame

RunFixActivators ==
    /\ pc = "act"
    /\ Enter(4)
    /\ \E r \in FixActivators(tree, VirtualEnv(dest_dir, relocate)) :
        /\ tree' = r.tree
        /\ pc' = IF r.ok THEN "svc" ELSE "aborted"
    /\ Frame

RunFixSystemdServices ==
    /\ pc = "svc"
    /\ Enter(5)
    /\ tree' \in FixSystemdServices(tree, VirtualEnv(dest_dir, relocate))
    /\ pc' = "log"
    /\ Frame

\* packages.log
WriteLog ==
    /\ pc = "log"
    /\ ledger' = [written |-> TRUE, included |-> Sorted(included), excluded |-> Sorted(excluded)]
    /\ pc' = "track"
    /\ UNCHANGED <<dest_dir, relocate, include_file, exclude_file, repo, meta_ok, include,
                   exclude, todo, included, excluded, unpack_log, tree, ran, prevTree>>

\* the track file; the run ends
WriteTrack ==
    /\ pc = "track"
    /\ pc' = "done"
    /\ UNCHANGED <<dest_dir, relocate, include_file, exclude_file, repo, meta_ok, include,
                   exclude, todo, included, excluded, unpack_log, tree, ran, prevTree, ledger>>

Next ==
    \/ Prepare
    \/ LoadLists
    \/ ExcludeStep
    \/ InstallStep
    \/ AddMetaInf
    \/ RunFixFilesystem
    \/ RunFixAlternatives
    \/ RunFixRelocation
    \/ RunFixActivators
    \/ RunFixSystemdServices
    \/ WriteLog
    \/ WriteTrack

Spec == Init /\ [][Next]_vars

\* create() is one sequential process: it takes its next step whenever it has one
FairSpec == Spec /\ WF_vars(Next)

(***************************************************************************)
(* The fixer stages on their own: any of the five stages of                *)
(* _fix_virtualenv applied, up to MaxApply times in all, to a tree that    *)
(* create() can hand to _fix_virtualenv.                                   *)
(***************************************************************************)
MaxApply == 2

RECURSIVE UnpackAll(_, _)
UnpackAll(t, rpms) ==
    IF rpms = {} THEN t
    ELSE LET rpm == CHOOSE r \in rpms : TRUE
         IN  UnpackAll(Overlay(t, Payload(rpm)), rpms \ {rpm})

\* the trees after extraction and add_meta_inf
ExtractedTrees ==
    {Overlay(UnpackAll(Overlay(v, UsrLinks), rpms), MetaInf(TRUE)) :
        v \in VenvTrees, rpms \in SUBSET Packages}

InitStages ==
    /\ dest_dir \in DestDirs
    /\ relocate \in RelocatedPaths
    /\ include_file = Missing
    /\ exclude_file = Missing
    /\ repo = {}
    /\ meta_ok = TRUE
    /\ include = <<>>
    /\ exclude = <<>>
    /\ todo = {}
    /\ included = {}
    /\ excluded = {}
    /\ unpack_log = {}
    /\ tree \in ExtractedTrees
    /\ pc = "stages"
    /\ ran = <<>>
    /\ prevTree = tree
    /\ ledger = NoLedger

CanApply == pc = "stages" /\ Len(ran) < MaxApply

ApplyFixFilesystem ==
    /\ CanApply
    /\ Enter(1)
    /\ tree' = FixFilesystem(tree)
    /\ UNCHANGED pc
    /\ Frame

ApplyFixAlternatives ==
    /\ CanApply
    /\ Enter(2)
    /\ tree' \in FixAlternatives(tree, dest_dir, relocate)
    /\ UNCHANGED pc
    /\ Frame

ApplyFixRelocation ==
    /\ CanApply
    /\ Enter(3)
    /\ tree' = FixRelocation(tree, dest_dir, VirtualEnv(dest_dir, relocate))
    /\ UNCHANGED pc
    /\ Frame

ApplyFixActivators ==
    /\ CanApply
    /\ Enter(4)
    /\ \E r \in FixActivators(tree, VirtualEnv(dest_dir, relocate)) :
        /\ tree' = r.tree
        /\ pc' = IF r.ok THEN "stages" ELSE "aborted"
    /\ Frame

ApplyFixSystemdServices ==
    /\ CanApply
    /\ Enter(5)
    /\ tree' \in FixSystemdServices(tree, VirtualEnv(dest_dir, relocate))
    /\ UNCHANGED pc
    /\ Frame

NextStages ==
    \/ ApplyFixFilesystem
    \/ ApplyFixAlternatives
    \/ ApplyFixRelocation
    \/ ApplyFixActivators
    \/ ApplyFixSystemdServices

SpecStages == InitStages /\ [][NextStages]_vars

(***************************************************************************)
(* Properties.                                                             *)
(***************************************************************************)
Range(s) == {s[i] : i \in 1..Len(s)}

\* both pattern lists are loaded
Loaded == pc \notin {"start", "load", "stages"}

\* the candidates the loop has classified
Classified == IF Loaded THEN repo \ todo ELSE {}

\* names to try against a pattern list
SampleNames == Packages \cup {s_empty, l_devel, l_b1, s_dotstar}

\* some activation script lacks the line `deactivate nondestructive`
AnchorMissing(t) ==
    \E a \in Activators : \A k \in 1..Len(t[Join(s_bin, a)].lines) :
        t[Join(s_bin, a)].lines[k] # s_anchor

\* the last two stages applied were both stage k
Repeated(k) == Len(ran) >= 2 /\ ran[Len(ran)] = k /\ ran[Len(ran) - 1] = k

\* C1: a classified package is in the installed set iff it matches no exclude
\* pattern and the include list is unpopulated or matches it; otherwise it is in
\* the excluded set (so a match of the exclude list wins over the include list).
C1_Selection ==
    Loaded =>
        \A n \in Classified :
            LET installed == /\ ~ListContains(exclude, n)
                             /\ (~IsPopulated(include) \/ ListContains(include, n))
            IN  /\ n \in included <=> installed
                /\ n \in excluded <=> ~installed

\* C1 witness: a finished run in which a package matching both lists was excluded
\* and another package was installed through the populated include list.
C1_Witness ==
    /\ pc = "done"
    /\ IsPopulated(include)
    /\ \E n \in excluded : ListContains(include, n) /\ ListContains(exclude, n)
    /\ included # {}

\* C2: a pattern list loaded from a path that does not exist is unpopulated and
\* contains no name; a missing include file constrains nothing and a missing
\* exclude file excludes nothing.
C2_MissingFile ==
    Loaded =>
        /\ ~include_file.exists =>
            /\ ~IsPopulated(include)
            /\ \A x \in SampleNames : ~ListContains(include, x)
            /\ \A n \in Classified : n \in included <=> ~ListContains(exclude, n)
        /\ ~exclude_file.exists =>
            /\ ~IsPopulated(exclude)
            /\ \A x \in SampleNames : ~ListContains(exclude, x)
            /\ \A n \in Classified :
                n \in excluded <=> (IsPopulated(include) /\ ~ListContains(include, n))

\* C2 witness: a run with both files missing went on to install every package.
C2_Witness ==
    /\ pc = "done"
    /\ ~include_file.exists
    /\ ~exclude_file.exists
    /\ included = repo
    /\ repo # {}

\* C3 as stated: FileList.contains(name) is true iff some pattern's search
\* succeeds somewhere in the name (unanchored).
C3_Unanchored ==
    Loaded =>
        \A items \in {include, exclude} : \A n \in SampleNames :
            ListContains(items, n) <=> \E i \in 1..Len(items) : ReSearch(items[i], n)

\* C3 as amended: FileList.contains(name) is true iff some pattern matches at the
\* first character of the name, that is iff the search of `^pattern` succeeds; a
\* pattern that occurs only further on in the name does not make it match.
C3_Anchored ==
    Loaded =>
        \A items \in {include, exclude} : \A n \in SampleNames :
            ListContains(items, n) <=>
                \E i \in 1..Len(items) : ReSearch(<<"^">> \o items[i], n)

\* C3 witness: a package that an include pattern occurs in the middle of, and that
\* no exclude pattern matches, was excluded for not matching the include list.
C3_Witness ==
    /\ pc = "done"
    /\ \E n \in excluded :
        /\ \E i \in 1..Len(include) : ReSearch(include[i], n)
        /\ ~ListContains(include, n)
        /\ ~ListContains(exclude, n)

\* C4 as stated: after stage 5 every line ExecStart=<cmd> of every unit file reads
\* ExecStart=<R><D><cmd>, the relocated path followed by the destination path
\* (also for an absolute D), and x.service is renamed venv-x.service.
C4_ExecStartRelocated ==
    pc \in {"log", "track", "done"} =>
        \A p \in ServiceGlob(prevTree) :
            LET q == Join(s_systemd, s_venv_dash \o Basename(p))
                follow == IF StartsWith(dest_dir, s_slash) THEN dest_dir
                          ELSE s_slash \o dest_dir
                old == prevTree[p].lines
            IN  /\ p \notin DOMAIN tree
                /\ q \in DOMAIN tree
                /\ Len(tree[q].lines) = Len(old)
                /\ \A k \in 1..Len(old) :
                    StartsWith(old[k], s_ExecStart) =>
                        tree[q].lines[k] =
                            s_ExecStart \o relocate \o follow
                            \o SubSeq(old[k], Len(s_ExecStart) + 1, Len(old[k]))

\* C5 as stated: each of the five stages, applied a second time, leaves the tree
\* its first application produced unchanged.
C5_AllIdempotent == \A k \in 1..5 : Repeated(k) => tree = prevTree

\* C5 as amended: stages 1, 2 and 3 leave the tree unchanged when applied a second
\* time; stage 4 does not (it inserts the library-path line again) and stage 5
\* does not when there is a unit file (it prefixes and renames again).
C5_ThreeIdempotent ==
    /\ \A k \in 1..3 : Repeated(k) => tree = prevTree
    /\ Repeated(4) => tree # prevTree
    /\ (Repeated(5) /\ ServiceGlob(prevTree) # {}) => tree # prevTree

\* C5 witness: stage 2 was applied twice to a tree in which it had retargeted an
\* alternatives link.
C5_Witness ==
    /\ Repeated(2)
    /\ p_tool \in DOMAIN tree
    /\ ~Contains(tree[p_tool].target, s_alternatives)

\* C6: when stage 3 is applied again, the first line of every file (so of every
\* file the first application rewrote) is what the first application left.
C6_ShebangFirstLine ==
    Repeated(3) =>
        \A p \in DOMAIN prevTree :
            (prevTree[p].kind = "file" /\ prevTree[p].lines # <<>>) =>
                /\ p \in DOMAIN tree
                /\ tree[p].lines # <<>>
                /\ tree[p].lines[1] = prevTree[p].lines[1]

\* C6 witness: stage 3 was applied twice and some file starts with the relocated
\* shebang, which no package ships.
C6_Witness ==
    /\ Repeated(3)
    /\ \E p \in DOMAIN tree :
        /\ tree[p].kind = "file"
        /\ tree[p].lines # <<>>
        /\ Strip(tree[p].lines[1]) = Shebang(VirtualEnv(dest_dir, relocate))

\* C7: once stage 4 has run on a tree in which an activation script lacks the
\* anchor line, the run is aborted in stage 4 and stays so: stage 5 has not run,
\* no unit file is rewritten or renamed, and the ledger is not written.
C7_MissingAnchorFatal ==
    /\ (AnchorMissing(tree) /\ 4 \in Range(ran)) =>
        /\ pc = "aborted"
        /\ ran = <<1, 2, 3, 4>>
        /\ ~ledger.written
        /\ \A p \in DOMAIN tree \cup DOMAIN prevTree :
            Dirname(p) = s_systemd =>
                p \in DOMAIN tree /\ p \in DOMAIN prevTree /\ tree[p] = prevTree[p]
    /\ pc = "aborted" => ~ENABLED Next

\* C7 witness: a run aborted in stage 4 over a missing anchor, with a unit file in
\* the tree that stage 5 would have renamed.
C7_Witness ==
    /\ pc = "aborted"
    /\ ran = <<1, 2, 3, 4>>
    /\ AnchorMissing(tree)
    /\ p_unit \in DOMAIN tree

\* C8: a run in which add_meta_inf succeeds and every activation script has its
\* anchor (so whose failures can only be failed unpacks, missing alternatives
\* siblings and unreadable files) eventually has classified every package, run
\* the five stages in order and written the ledger.
C8_NonFatalCompletes ==
    (pc = "start" /\ meta_ok /\ ~AnchorMissing(tree)) ~>
        /\ ledger.written
        /\ todo = {}
        /\ included \cup excluded = repo
        /\ {x[1] : x \in unpack_log} = included
        /\ ran = <<1, 2, 3, 4, 5>>

\* C8 witness: a finished run with its ledger in which an unpack failed, an
\* alternatives link was left for want of its sibling and a file was unreadable.
C8_Witness ==
    /\ pc = "done"
    /\ ledger.written
    /\ \E x \in unpack_log : x[2] = "failed"
    /\ p_other \in DOMAIN tree
    /\ tree[p_other].target = t_other
    /\ tree[p_python2].bad

\* C9: right after stage 1 every table directory present before has its table
\* mode (etc/sudoers.d 0750, the others 0755), every other node is as it was, and
\* no node was created.
C9_Permissions ==
    ran = <<1>> =>
        /\ DOMAIN tree = DOMAIN prevTree
        /\ \A p \in DOMAIN prevTree :
            IF p \in TableDirs /\ prevTree[p].kind = "dir"
            THEN tree[p] = [prevTree[p] EXCEPT
                               !.mode = IF p = s_etc_sudoers_d THEN M750 ELSE M755]
            ELSE tree[p] = prevTree[p]

\* C9 witness: stage 1 took etc/sudoers.d from 0700 to 0750, left the directory
\* opt, which is not in the table, at 0700, and did not create srv.
C9_Witness ==
    /\ ran = <<1>>
    /\ s_etc_sudoers_d \in DOMAIN prevTree
    /\ prevTree[s_etc_sudoers_d].mode = M700
    /\ tree[s_etc_sudoers_d].mode = M750
    /\ p_opt \in DOMAIN tree
    /\ tree[p_opt].mode = M700
    /\ s_srv \notin DOMAIN tree

\* C10 as stated: no package is unpacked until every candidate is classified.
C10_SelectionBeforeExtraction == unpack_log # {} => todo = {}

\* C10 as amended: only packages already classified as installed are unpacked,
\* each in the loop iteration that classifies it, and every candidate is
\* classified before add_meta_inf and the first fixer stage run; the stages then
\* run in their fixed order.
C10_ExtractionBeforeFixers ==
    /\ {x[1] : x \in unpack_log} = included
    /\ included \cap excluded = {}
    /\ included \cup excluded = Classified
    /\ (ran # <<>> \/ s_META_INF \in DOMAIN tree) => (Loaded /\ todo = {})
    /\ \A i \in 1..Len(ran) : ran[i] = i

\* C10 witness: a package is unpacked while another candidate is unclassified.
C10_Witness ==
    /\ unpack_log # {}
    /\ todo # {}

\* the first line passes the test of _fix_relocation: stripped of blanks it starts
\* with `#!` and contains `python`
Qualifies(lines) ==
    /\ lines # <<>>
    /\ StartsWith(Strip(lines[1]), s_hashbang)
    /\ Contains(Strip(lines[1]), s_python)

\* C11 as stated: right after stage 3, a readable regular file whose first line
\* qualified has the relocated shebang as first line (blanks around it aside) and
\* every other line as it was before the stage, also a later line that holds the
\* text of the original first line; any other file is entirely unchanged.
C11_OnlyFirstLine ==
    ran = <<1, 2, 3>> =>
        \A p \in DOMAIN prevTree :
            (prevTree[p].kind = "file" /\ ~prevTree[p].bad) =>
                /\ p \in DOMAIN tree
                /\ IF Qualifies(prevTree[p].lines)
                   THEN /\ tree[p] = [prevTree[p] EXCEPT !.lines = tree[p].lines]
                        /\ Len(tree[p].lines) = Len(prevTree[p].lines)
                        /\ Strip(tree[p].lines[1]) = Shebang(VirtualEnv(dest_dir, relocate))
                        /\ \A k \in 2..Len(prevTree[p].lines) :
                            tree[p].lines[k] = prevTree[p].lines[k]
                   ELSE tree[p] = prevTree[p]

\* C12 as stated: right after stage 2, every link whose target contains
\* `alternatives` and whose sibling <link>-2.7 exists points at the sibling's path
\* prefixed by the relocated path; such a link without sibling keeps its target;
\* every other link and every other node is as it was, and no node comes or goes.
C12_Retargeted ==
    ran = <<1, 2>> =>
        /\ DOMAIN tree = DOMAIN prevTree
        /\ \A p \in DOMAIN prevTree :
            LET sibling == Join(dest_dir, p \o s_suffix27)
                prefixed == relocate \o (IF StartsWith(sibling, s_slash) THEN sibling
                                         ELSE s_slash \o sibling)
            IN  IF /\ prevTree[p].kind = "link"
                   /\ Contains(prevTree[p].target, s_alternatives)
                   /\ Exists(prevTree, p \o s_suffix27)
                THEN tree[p].kind = "link" /\ tree[p].target = prefixed
                ELSE tree[p] = prevTree[p]
====
